---- MODULE Spec2Model ----
(***************************************************************************)
(* Model of src/test_async.py: two printer coroutines gathered by main()   *)
(* and driven by asyncio.run().  The coroutine bodies are translated line  *)
(* by line; the event loop that asyncio.run() starts is modelled at the    *)
(* level of its handles: a FIFO of ready callbacks (loop._ready), a binary *)
(* heap of timers (loop._scheduled, Python's heapq ordered by the timer's  *)
(* deadline only) and the batch of handles one loop iteration runs.        *)
(* Time is an integer clock; one sleep(1) is SleepDelay ticks.  The clock  *)
(* advances while the loop is blocked waiting for the next timer, and may  *)
(* also advance while code runs (bounded by MaxClock).  asyncio.run() is   *)
(* followed through its whole life: the run of main(), the cancellation of *)
(* the tasks still alive, the two shutdown coroutines and loop.close().    *)
(***************************************************************************)
EXTENDS Integers, Sequences, FiniteSets

VARIABLES
    group,      \* the coroutines handed to gather: <<[name, times], ...>>
    failAt,     \* failAt[t] = k > 0: the k-th print of task t raises; 0 = never
    now,        \* loop.time()
    ready,      \* loop._ready: FIFO of handles [kind, task]
    scheduled,  \* loop._scheduled: heapq of timers [when, task]
    ntodo,      \* handles left to run in the current loop iteration
    cur,        \* the task whose step the loop is executing, 0 = none
    stopping,   \* loop._stopping
    runner,     \* what asyncio.run is running the loop for: "main", "cancel",
                \* "asyncgens", "executor"; "closed" once the loop is closed
    cancelling, \* cancelling[t]: task t has been cancelled and not yet stepped
    cbrun,      \* cbrun[t]: done callbacks of task t that have run
    ncancel,    \* children of the gather of _cancel_all_tasks (its nfuts)
    ncancelled, \* nfinished of the gather of _cancel_all_tasks
    state,      \* state[t]: task t's scheduling state
    line,       \* line[t]: source line task t's coroutine is at (4, 5 or 6)
    idx,        \* idx[t]: iterations of printer's loop already started
    wake,       \* wake[t]: deadline of task t's latest sleep
    nsleeps,    \* nsleeps[t]: number of sleep calls task t has made
    reqno,      \* reqno[t]: serial number of task t's latest sleep request
    nreq,       \* number of sleep requests made so far
    emitted,    \* emitted[t]: the records task t printed, <<name, iteration>>
    out,        \* the printed lines
    mainpc,     \* main(): "Pending", "Awaiting", "Returned", "Raised"
    outer,      \* gather's outer future: [st, exc]
    nfinished,  \* gather's nfinished
    failed,     \* tasks that raised, in the order they raised
    exit        \* asyncio.run(): "running", "ok", "error"

vars == <<group, failAt, now, ready, scheduled, ntodo, cur, stopping, runner,
          cancelling, cbrun, ncancel, ncancelled, state, line, idx, wake,
          nsleeps, reqno, nreq, emitted, out, mainpc, outer, nfinished, failed,
          exit>>

\* the variables only the cleanup of asyncio.run changes
cleanup == <<runner, cancelling, cbrun, ncancel, ncancelled>>

\* ---------------------------------------------------------------- bounds
MaxClock == 2      \* the clock drifts while code runs only below this value
MaxTasks == 2      \* largest group drawn by InitAny
MaxTimes == 2      \* largest iteration count drawn by InitAny

\* ------------------------------------------------------ program constants
SleepDelay == 1    \* asyncio.sleep(1)
TimesA == 5        \* printer("A",5)
TimesB == 2        \* printer("B",2)

Names == {"A", "B"}

\* mutant: the two printers handed to gather in the other order
MainGroupSwapped == << [name |-> "B", times |-> TimesB], [name |-> "A", times |-> TimesA] >>

\* the arguments of gather in main()
MainGroup == << [name |-> "A", times |-> TimesA], [name |-> "B", times |-> TimesB] >>

Tasks == 1..Len(group)

Handle(k, t) == [kind |-> k, task |-> t]

\* -------------------------------------------------------- the timer heap
\* TimerHandle.__lt__ compares the deadlines only.
TimerLt(a, b) == a.when < b.when

\* heapq._siftdown(heap, startpos, pos), positions 0-based as in heapq
RECURSIVE SiftDown(_, _, _, _)
SiftDown(h, startpos, pos, newitem) ==
    IF pos > startpos
    THEN LET parentpos == (pos - 1) \div 2
         IN  IF TimerLt(newitem, h[parentpos + 1])
             THEN SiftDown([h EXCEPT ![pos + 1] = h[parentpos + 1]],
                           startpos, parentpos, newitem)
             ELSE [h EXCEPT ![pos + 1] = newitem]
    ELSE [h EXCEPT ![pos + 1] = newitem]

\* the while loop of heapq._siftup: bubble the smaller child up to a leaf
RECURSIVE SiftUpLoop(_, _, _)
SiftUpLoop(h, pos, endpos) ==
    LET childpos == 2 * pos + 1
        rightpos == childpos + 1
    IN  IF childpos < endpos
        THEN LET c == IF rightpos < endpos
                         /\ ~ TimerLt(h[childpos + 1], h[rightpos + 1])
                      THEN rightpos ELSE childpos
             IN  SiftUpLoop([h EXCEPT ![pos + 1] = h[c + 1]], c, endpos)
        ELSE <<h, pos>>

SiftUp(h, pos) ==
    LET newitem == h[pos + 1]
        r == SiftUpLoop(h, pos, Len(h))
    IN  SiftDown(r[1], pos, r[2], newitem)

HeapPush(h, x) == SiftDown(Append(h, x), 0, Len(h), x)

\* heapq.heappop: <<popped item, remaining heap>>
HeapPop(h) ==
    LET lastelt == h[Len(h)]
        rest == SubSeq(h, 1, Len(h) - 1)
    IN  IF rest = << >>
        THEN <<lastelt, << >> >>
        ELSE <<rest[1], SiftUp([rest EXCEPT ![1] = lastelt], 0)>>

\* a timer is due when its deadline is not after the clock (_run_once takes
\* the timers with when < time() + clock_resolution; on a clock that counts
\* in units of its resolution that is when <= time())
TimerDue(t, clock) == t.when <= clock

\* _run_once: move every due timer from the heap to the ready queue
RECURSIVE PopDue(_, _, _)
PopDue(h, rdy, clock) ==
    IF h # << >> /\ TimerDue(h[1], clock)
    THEN LET p == HeapPop(h)
         IN  PopDue(p[2], Append(rdy, Handle("timer", p[1].task)), clock)
    ELSE <<h, rdy>>

\* ---------------------------------------------------------------- Init
InitLoop ==
    /\ now = 0
    /\ ready = << Handle("main", 0) >>
    /\ scheduled = << >>
    /\ ntodo = 0
    /\ cur = 0
    /\ stopping = FALSE
    /\ runner = "main"
    /\ cancelling = [t \in Tasks |-> FALSE]
    /\ cbrun = [t \in Tasks |-> 0]
    /\ ncancel = 0
    /\ ncancelled = 0
    /\ state = [t \in Tasks |-> "Unborn"]
    /\ line = [t \in Tasks |-> 4]
    /\ idx = [t \in Tasks |-> 0]
    /\ wake = [t \in Tasks |-> 0]
    /\ nsleeps = [t \in Tasks |-> 0]
    /\ reqno = [t \in Tasks |-> 0]
    /\ nreq = 0
    /\ emitted = [t \in Tasks |-> << >>]
    /\ out = << >>
    /\ mainpc = "Pending"
    /\ outer = [st |-> "none", exc |-> 0]
    /\ nfinished = 0
    /\ failed = << >>
    /\ exit = "running"

\* fault plans: which print of which task raises (at most its last one)
FailPlans(g) ==
    LET top == IF Len(g) = 0 THEN 0
               ELSE CHOOSE m \in { g[t].times : t \in 1..Len(g) } :
                        \A t \in 1..Len(g) : g[t].times <= m
    IN  { f \in [1..Len(g) -> 0..top] : \A t \in 1..Len(g) : f[t] <= g[t].times }

\* the program as written: main() gathers printer("A",5) and printer("B",2)
Init ==
    /\ group = MainGroup
    /\ failAt \in FailPlans(group)
    /\ InitLoop

Groups ==
    UNION { [1..n -> [name : Names, times : 0..MaxTimes]] : n \in 0..MaxTasks }

\* main() with any group of printers handed to gather
InitAny ==
    /\ group \in Groups
    /\ failAt \in FailPlans(group)
    /\ InitLoop

\* ------------------------------------------------------- the event loop
Enqueue(rdy, k, t) == Append(rdy, Handle(k, t))

\* mutant: the loop takes the next handle while a coroutine is mid-step
LoopPreempts == TRUE

\* the loop is between two handles of an iteration
LoopIdle == cur = 0

\* a timer is cancelled by the finally clause of sleep when CancelledError
\* is thrown into the coroutine awaiting it, that is when its task is
\* cancelled
TimerCancelled(tm) == state[tm.task] = "Cancelled"

\* _run_once: cancelled timers at the head of the heap are dropped
RECURSIVE DropCancelled(_)
DropCancelled(h) ==
    IF h # << >> /\ TimerCancelled(h[1])
    THEN DropCancelled(HeapPop(h)[2])
    ELSE h

\* base_events._run_once, first half: drop the cancelled timers at the head
\* of the heap, collect the due timers, fix the batch
Poll ==
    /\ exit = "running" /\ LoopIdle /\ ntodo = 0 /\ ~ stopping
    /\ \/ ready # << >>
       \/ DropCancelled(scheduled) # << >>
          /\ TimerDue(DropCancelled(scheduled)[1], now)
    /\ LET r == PopDue(DropCancelled(scheduled), ready, now)
       IN  /\ scheduled' = r[1]
           /\ ready' = r[2]
           /\ ntodo' = Len(r[2])
    /\ UNCHANGED <<cleanup, reqno, nreq, emitted, group, failAt, now, cur,
                   stopping, state, line, idx, wake, nsleeps, out, mainpc,
                   outer, nfinished, failed, exit>>

\* select() is waiting for the earliest timer
Blocked ==
    /\ LoopIdle /\ ntodo = 0 /\ ~ stopping
    /\ ready = << >> /\ scheduled # << >>
    /\ ~ TimerDue(scheduled[1], now)

\* time passes: always while the loop is blocked, and below MaxClock also
\* while code runs
Tick ==
    /\ exit = "running"
    /\ Blocked \/ now < MaxClock
    /\ now' = now + 1
    /\ UNCHANGED <<cleanup, reqno, nreq, emitted, group, failAt, ready,
                   scheduled, ntodo, cur, stopping, state, line, idx, wake,
                   nsleeps, out, mainpc, outer, nfinished, failed, exit>>

\* the next handle of the batch is of kind k
NextHandle(k) ==
    /\ exit = "running" /\ LoopIdle /\ ntodo > 0
    /\ ready[1].kind = k

\* a sleep's timer fires: the sleep future gets its result, which schedules
\* the wakeup of the task awaiting it; nothing happens when the timer was
\* cancelled or the sleep future was cancelled with its task
RunTimer ==
    /\ NextHandle("timer")
    /\ LET t == ready[1].task
       IN  ready' = IF state[t] = "Suspended" /\ ~ cancelling[t]
                    THEN Enqueue(Tail(ready), "step", t)
                    ELSE Tail(ready)
    /\ ntodo' = ntodo - 1
    /\ UNCHANGED <<cleanup, reqno, nreq, emitted, group, failAt, now,
                   scheduled, cur, stopping, state, line, idx, wake, nsleeps,
                   out, mainpc, outer, nfinished, failed, exit>>

\* a task's first step or wakeup: the coroutine gets control; a cancelled
\* task gets CancelledError thrown in instead, which ends it without running
\* any of its body and schedules its done callbacks: the one of main's
\* gather and the one of the gather of _cancel_all_tasks
RunStep ==
    /\ NextHandle("step")
    /\ ntodo' = ntodo - 1
    /\ LET t == ready[1].task
       IN  /\ state[t] \in {"Pending", "Suspended"}
           /\ IF cancelling[t]
              THEN /\ state' = [state EXCEPT ![t] = "Cancelled"]
                   /\ cancelling' = [cancelling EXCEPT ![t] = FALSE]
                   /\ ready' = Enqueue(Enqueue(Tail(ready), "done_cb", t),
                                       "done_cb", t)
                   /\ UNCHANGED cur
              ELSE /\ state' = [state EXCEPT ![t] = "Running"]
                   /\ cur' = t
                   /\ ready' = Tail(ready)
                   /\ UNCHANGED cancelling
    /\ UNCHANGED <<runner, cbrun, ncancel, ncancelled, reqno, nreq, emitted,
                   group, failAt, now, scheduled, stopping, line, idx, wake,
                   nsleeps, out, mainpc, outer, nfinished, failed, exit>>

\* ------------------------------------------------------------- printer
\* mutant: the loop runs one iteration too many
ForIterOffByOne(t) ==
    /\ exit = "running" /\ cur = t /\ line[t] = 4
    /\ IF idx[t] <= group[t].times
       THEN /\ idx' = [idx EXCEPT ![t] = idx[t] + 1]
            /\ line' = [line EXCEPT ![t] = 5]
            /\ UNCHANGED <<state, cur, ready>>
       ELSE /\ state' = [state EXCEPT ![t] = "Completed"]
            /\ cur' = 0
            /\ ready' = Enqueue(ready, "done_cb", t)
            /\ UNCHANGED <<idx, line>>
    /\ UNCHANGED <<cleanup, reqno, nreq, emitted, group, failAt, now,
                   scheduled, ntodo, stopping, wake, nsleeps, out, mainpc,
                   outer, nfinished, failed, exit>>

\* line 4, for i in range(times): next iteration, or the coroutine returns
ForIter(t) ==
    /\ exit = "running" /\ cur = t /\ line[t] = 4
    /\ IF idx[t] < group[t].times
       THEN /\ idx' = [idx EXCEPT ![t] = idx[t] + 1]
            /\ line' = [line EXCEPT ![t] = 5]
            /\ UNCHANGED <<state, cur, ready>>
       ELSE /\ state' = [state EXCEPT ![t] = "Completed"]
            /\ cur' = 0
            /\ ready' = Enqueue(ready, "done_cb", t)
            /\ UNCHANGED <<idx, line>>
    /\ UNCHANGED <<cleanup, reqno, nreq, emitted, group, failAt, now,
                   scheduled, ntodo, stopping, wake, nsleeps, out, mainpc,
                   outer, nfinished, failed, exit>>

\* mutant: the exception of a failing print is swallowed and the loop goes on
PrintNameSwallow(t) ==
    /\ exit = "running" /\ cur = t /\ line[t] = 5
    /\ IF failAt[t] = idx[t]
       THEN /\ failed' = Append(failed, t)
            /\ line' = [line EXCEPT ![t] = 6]
            /\ UNCHANGED <<out, emitted, state, cur, ready>>
       ELSE /\ out' = Append(out, group[t].name)
            /\ emitted' = [emitted EXCEPT ![t] = Append(@, <<group[t].name, idx[t]>>)]
            /\ line' = [line EXCEPT ![t] = 6]
            /\ UNCHANGED <<state, failed, cur, ready>>
    /\ UNCHANGED <<cleanup, reqno, nreq, group, failAt, now, scheduled, ntodo,
                   stopping, idx, wake, nsleeps, mainpc, outer, nfinished,
                   exit>>

\* line 5, print(name): emits the record, or raises in the planned step
PrintName(t) ==
    /\ exit = "running" /\ cur = t /\ line[t] = 5
    /\ IF failAt[t] = idx[t]
       THEN /\ state' = [state EXCEPT ![t] = "Failed"]
            /\ failed' = Append(failed, t)
            /\ cur' = 0
            /\ ready' = Enqueue(ready, "done_cb", t)
            /\ UNCHANGED <<out, emitted, line>>
       ELSE /\ out' = Append(out, group[t].name)
            /\ emitted' = [emitted EXCEPT ![t] = Append(@, <<group[t].name, idx[t]>>)]
            /\ line' = [line EXCEPT ![t] = 6]
            /\ UNCHANGED <<state, failed, cur, ready>>
    /\ UNCHANGED <<cleanup, reqno, nreq, group, failAt, now, scheduled, ntodo,
                   stopping, idx, wake, nsleeps, mainpc, outer, nfinished,
                   exit>>

\* the effect of one sleep request whose timer gets the deadline `when`
SleepUntil(t, when) ==
    /\ scheduled' = HeapPush(scheduled, [when |-> when, task |-> t])
    /\ wake' = [wake EXCEPT ![t] = now + SleepDelay]
    /\ nsleeps' = [nsleeps EXCEPT ![t] = nsleeps[t] + 1]
    /\ nreq' = nreq + 1
    /\ reqno' = [reqno EXCEPT ![t] = nreq + 1]
    /\ state' = [state EXCEPT ![t] = "Suspended"]
    /\ line' = [line EXCEPT ![t] = 4]
    /\ cur' = 0
    /\ UNCHANGED <<cleanup, emitted, group, failAt, now, ready, ntodo,
                   stopping, idx, out, mainpc, outer, nfinished, failed, exit>>

\* mutant: no sleep after the last print, the coroutine goes straight on
SleepSkipLast(t) ==
    /\ exit = "running" /\ cur = t /\ line[t] = 6
    /\ IF idx[t] = group[t].times
       THEN /\ line' = [line EXCEPT ![t] = 4]
            /\ UNCHANGED <<cleanup, scheduled, wake, nsleeps, nreq, reqno,
                           state, cur, emitted, group, failAt, now, ready,
                           ntodo, stopping, idx, out, mainpc, outer, nfinished,
                           failed, exit>>
       ELSE SleepUntil(t, now + SleepDelay)

\* mutant: the timer is set without the delay
SleepNoDelay(t) ==
    /\ exit = "running" /\ cur = t /\ line[t] = 6
    /\ SleepUntil(t, now)

\* mutant: the task is suspended but its timer is never set
SleepLost(t) ==
    /\ exit = "running" /\ cur = t /\ line[t] = 6
    /\ wake' = [wake EXCEPT ![t] = now + SleepDelay]
    /\ nsleeps' = [nsleeps EXCEPT ![t] = nsleeps[t] + 1]
    /\ nreq' = nreq + 1
    /\ reqno' = [reqno EXCEPT ![t] = nreq + 1]
    /\ state' = [state EXCEPT ![t] = "Suspended"]
    /\ line' = [line EXCEPT ![t] = 4]
    /\ cur' = 0
    /\ UNCHANGED <<cleanup, scheduled, emitted, group, failAt, now, ready,
                   ntodo, stopping, idx, out, mainpc, outer, nfinished, failed,
                   exit>>

\* line 6, await asyncio.sleep(1): a timer SleepDelay ahead of the clock is
\* pushed on the heap and the task is suspended until it fires
Sleep(t) ==
    /\ exit = "running" /\ cur = t /\ line[t] = 6
    /\ SleepUntil(t, now + SleepDelay)

\* ---------------------------------------------------------------- main
\* mutant: the tasks are scheduled last argument first
SubmitReversed(rdy, n) ==
    rdy \o [t \in 1..n |-> Handle("step", n + 1 - t)]

\* the tasks gather creates, in argument order, each scheduled with call_soon
Submit(rdy, n) ==
    rdy \o [t \in 1..n |-> Handle("step", t)]

\* mutant: main awaits a future that nothing completes when the group is empty
MainStartAlwaysAwaits ==
    /\ NextHandle("main") /\ mainpc = "Pending"
    /\ ntodo' = ntodo - 1
    /\ outer' = [st |-> "pending", exc |-> 0]
    /\ mainpc' = "Awaiting"
    /\ state' = [t \in Tasks |-> "Pending"]
    /\ ready' = Submit(Tail(ready), Len(group))
    /\ UNCHANGED <<cleanup, reqno, nreq, emitted, group, failAt, now,
                   scheduled, cur, stopping, line, idx, wake, nsleeps, out,
                   nfinished, failed, exit>>

\* main()'s first step: gather(...) and the await of its outer future.
\* gather() of nothing returns a future that is already done.
MainStart ==
    /\ NextHandle("main") /\ mainpc = "Pending"
    /\ ntodo' = ntodo - 1
    /\ IF Len(group) = 0
       THEN /\ outer' = [st |-> "result", exc |-> 0]
            /\ mainpc' = "Returned"
            /\ ready' = Enqueue(Tail(ready), "stop", 0)
            /\ UNCHANGED state
       ELSE /\ outer' = [st |-> "pending", exc |-> 0]
            /\ mainpc' = "Awaiting"
            /\ state' = [t \in Tasks |-> "Pending"]
            /\ ready' = Submit(Tail(ready), Len(group))
    /\ UNCHANGED <<cleanup, reqno, nreq, emitted, group, failAt, now,
                   scheduled, cur, stopping, line, idx, wake, nsleeps, out,
                   nfinished, failed, exit>>

\* mutant: the outer future gets its result when the first child is done
ChildDoneFirst(t) ==
    IF outer.st # "pending"
    THEN /\ ready' = Tail(ready)
         /\ UNCHANGED outer
    ELSE IF state[t] \in {"Failed", "Cancelled"}
    THEN /\ outer' = [st |-> "exception", exc |-> t]
         /\ ready' = Enqueue(Tail(ready), "main", 0)
    ELSE /\ outer' = [st |-> "result", exc |-> 0]
         /\ ready' = Enqueue(Tail(ready), "main", 0)

\* mutant: a child's exception is counted as a result
ChildDoneIgnoresFailure(t) ==
    IF outer.st = "pending" /\ nfinished + 1 = Len(group)
    THEN /\ outer' = [st |-> "result", exc |-> 0]
         /\ ready' = Enqueue(Tail(ready), "main", 0)
    ELSE /\ ready' = Tail(ready)
         /\ UNCHANGED outer

\* the body of _done_callback of main's gather after nfinished += 1: nothing
\* when the outer future is done already; the child's exception goes to the
\* outer future; the last child to finish gives the outer future its result.
\* A done outer future schedules the wakeup of main, which awaits it.
ChildDone(t) ==
    IF outer.st # "pending"
    THEN /\ ready' = Tail(ready)
         /\ UNCHANGED outer
    ELSE IF state[t] \in {"Failed", "Cancelled"}
    THEN /\ outer' = [st |-> "exception", exc |-> t]
         /\ ready' = Enqueue(Tail(ready), "main", 0)
    ELSE IF nfinished + 1 = Len(group)
    THEN /\ outer' = [st |-> "result", exc |-> 0]
         /\ ready' = Enqueue(Tail(ready), "main", 0)
    ELSE /\ ready' = Tail(ready)
         /\ UNCHANGED outer

\* _done_callback of main's gather for child t, the first done callback
\* registered on the task
DoneCallback ==
    /\ NextHandle("done_cb")
    /\ cbrun[ready[1].task] = 0
    /\ ntodo' = ntodo - 1
    /\ nfinished' = nfinished + 1
    /\ cbrun' = [cbrun EXCEPT ![ready[1].task] = 1]
    /\ ChildDone(ready[1].task)
    /\ UNCHANGED <<runner, cancelling, ncancel, ncancelled, reqno, nreq,
                   emitted, group, failAt, now, scheduled, cur, stopping,
                   state, line, idx, wake, nsleeps, out, mainpc, failed, exit>>

\* _done_callback of the gather(*to_cancel, return_exceptions=True) of
\* _cancel_all_tasks, the second done callback on a cancelled task: the last
\* one gives that gather its result, which stops the loop
CancelCallback ==
    /\ NextHandle("done_cb")
    /\ cbrun[ready[1].task] = 1
    /\ ntodo' = ntodo - 1
    /\ ncancelled' = ncancelled + 1
    /\ cbrun' = [cbrun EXCEPT ![ready[1].task] = 2]
    /\ ready' = IF ncancelled + 1 = ncancel
                THEN Enqueue(Tail(ready), "stop", 0)
                ELSE Tail(ready)
    /\ UNCHANGED <<runner, cancelling, ncancel, reqno, nreq, emitted, group,
                   failAt, now, scheduled, cur, stopping, state, line, idx,
                   wake, nsleeps, out, mainpc, outer, nfinished, failed, exit>>

\* main() is woken by the outer future: it returns, or the exception of the
\* outer future is raised out of the await
MainWakeup ==
    /\ NextHandle("main") /\ mainpc = "Awaiting"
    /\ ntodo' = ntodo - 1
    /\ mainpc' = IF outer.st = "exception" THEN "Raised" ELSE "Returned"
    /\ ready' = Enqueue(Tail(ready), "stop", 0)
    /\ UNCHANGED <<cleanup, reqno, nreq, emitted, group, failAt, now,
                   scheduled, cur, stopping, state, line, idx, wake, nsleeps,
                   out, outer, nfinished, failed, exit>>

\* ------------------------------------------------------- asyncio.run
\* run_until_complete's callback on the future it waits for: loop.stop()
RunStop ==
    /\ NextHandle("stop")
    /\ ntodo' = ntodo - 1
    /\ ready' = Tail(ready)
    /\ stopping' = TRUE
    /\ UNCHANGED <<cleanup, reqno, nreq, emitted, group, failAt, now,
                   scheduled, cur, state, line, idx, wake, nsleeps, out,
                   mainpc, outer, nfinished, failed, exit>>

\* the first step of shutdown_asyncgens or shutdown_default_executor: with
\* no async generator and no executor the coroutine returns at once, and its
\* task's done callback (run_until_complete's) is scheduled
RunShutdown ==
    /\ NextHandle("shutdown")
    /\ ntodo' = ntodo - 1
    /\ ready' = Enqueue(Tail(ready), "stop", 0)
    /\ UNCHANGED <<cleanup, reqno, nreq, emitted, group, failAt, now,
                   scheduled, cur, stopping, state, line, idx, wake, nsleeps,
                   out, mainpc, outer, nfinished, failed, exit>>

Finished(s) == s \in {"Completed", "Failed", "Cancelled"}

\* tasks.all_tasks(loop): the tasks that are not done
Alive == { t \in Tasks : ~ Finished(state[t]) }

\* the orders in which a set can be iterated
Orders(S) ==
    { f \in [1..Cardinality(S) -> S] :
        \A i, j \in 1..Cardinality(S) : f[i] = f[j] => i = j }

\* task.cancel() cancels the future the task waits for; a task whose step
\* or wakeup is already scheduled is only marked (_must_cancel)
WaitsOnFuture(t) ==
    /\ state[t] = "Suspended"
    /\ \A k \in 1..Len(ready) : ready[k] # Handle("step", t)

\* the wakeups that cancelling the tasks order[1], order[2], ... schedules
RECURSIVE CancelWakeups(_, _)
CancelWakeups(order, n) ==
    IF n = 0 THEN << >>
    ELSE CancelWakeups(order, n - 1)
         \o (IF WaitsOnFuture(order[n]) THEN << Handle("step", order[n]) >>
             ELSE << >>)

\* the loop leaves run_forever after the iteration that ran loop.stop()
LoopStopped(r) ==
    /\ exit = "running" /\ runner = r
    /\ stopping /\ LoopIdle /\ ntodo = 0

\* run_until_complete(main) is over and asyncio.run closes its runner.
\* _cancel_all_tasks cancels the tasks still alive, in the iteration order
\* of the set all_tasks returns, and runs the loop for their gather; with
\* no task alive the loop is run for shutdown_asyncgens() at once.
EndMain ==
    /\ LoopStopped("main")
    /\ stopping' = FALSE
    /\ IF Alive = {}
       THEN /\ runner' = "asyncgens"
            /\ ready' = Enqueue(ready, "shutdown", 0)
            /\ UNCHANGED <<cancelling, ncancel>>
       ELSE /\ runner' = "cancel"
            /\ cancelling' = [t \in Tasks |-> t \in Alive]
            /\ ncancel' = Cardinality(Alive)
            /\ \E order \in Orders(Alive) :
                  ready' = ready \o CancelWakeups(order, Cardinality(Alive))
    /\ UNCHANGED <<cbrun, ncancelled, reqno, nreq, emitted, group, failAt, now,
                   scheduled, ntodo, cur, state, line, idx, wake, nsleeps, out,
                   mainpc, outer, nfinished, failed, exit>>

\* the gather of the cancelled tasks is done: the loop is run for
\* shutdown_asyncgens()
EndCancel ==
    /\ LoopStopped("cancel")
    /\ stopping' = FALSE
    /\ runner' = "asyncgens"
    /\ ready' = Enqueue(ready, "shutdown", 0)
    /\ UNCHANGED <<cancelling, cbrun, ncancel, ncancelled, reqno, nreq,
                   emitted, group, failAt, now, scheduled, ntodo, cur, state,
                   line, idx, wake, nsleeps, out, mainpc, outer, nfinished,
                   failed, exit>>

\* shutdown_asyncgens() is done: the loop is run for
\* shutdown_default_executor()
EndAsyncgens ==
    /\ LoopStopped("asyncgens")
    /\ stopping' = FALSE
    /\ runner' = "executor"
    /\ ready' = Enqueue(ready, "shutdown", 0)
    /\ UNCHANGED <<cancelling, cbrun, ncancel, ncancelled, reqno, nreq,
                   emitted, group, failAt, now, scheduled, ntodo, cur, state,
                   line, idx, wake, nsleeps, out, mainpc, outer, nfinished,
                   failed, exit>>

\* shutdown_default_executor() is done: loop.close() empties the loop's
\* queues and asyncio.run returns main's result or raises main's exception
Exit ==
    /\ LoopStopped("executor")
    /\ stopping' = FALSE
    /\ runner' = "closed"
    /\ exit' = IF mainpc = "Returned" THEN "ok" ELSE "error"
    /\ ready' = << >>
    /\ scheduled' = << >>
    /\ UNCHANGED <<cancelling, cbrun, ncancel, ncancelled, reqno, nreq,
                   emitted, group, failAt, now, ntodo, cur, state, line, idx,
                   wake, nsleeps, out, mainpc, outer, nfinished, failed>>

LoopNext ==
    \/ Poll
    \/ RunTimer
    \/ RunStep
    \/ MainStart
    \/ DoneCallback
    \/ CancelCallback
    \/ MainWakeup
    \/ RunStop
    \/ RunShutdown
    \/ EndMain
    \/ EndCancel
    \/ EndAsyncgens
    \/ Exit

TaskNext ==
    \/ \E t \in Tasks : ForIter(t)
    \/ \E t \in Tasks : PrintName(t)
    \/ \E t \in Tasks : Sleep(t)

Next == LoopNext \/ TaskNext \/ Tick

Spec == Init /\ [][Next]_vars

SpecAny == InitAny /\ [][Next]_vars

\* the loop keeps running and the clock keeps advancing
Fairness == WF_vars(LoopNext) /\ WF_vars(TaskNext) /\ WF_vars(Tick)

FairSpec == Init /\ [][Next]_vars /\ Fairness

\* ------------------------------------------------------------ properties
IsPrefix(a, b) == Len(a) <= Len(b) /\ a = SubSeq(b, 1, Len(a))

Range(f) == { f[x] : x \in DOMAIN f }

NoFault == \A t \in Tasks : failAt[t] = 0

\* the number of records the tasks 1..n have emitted
RECURSIVE EmittedUpTo(_)
EmittedUpTo(n) == IF n = 0 THEN 0 ELSE Len(emitted[n]) + EmittedUpTo(n - 1)

Expected == <<"A", "B", "A", "B", "A", "A", "A">>

\* C1: when no print fails, main()'s run of printer("A",5) and printer("B",2)
\* prints a prefix of A, B, A, B, A, A, A at every moment and exactly that
\* sequence once the program has exited; the k-th record of a task is not
\* printed before time k - 1.
C1_OutputSequence ==
    NoFault =>
        /\ IsPrefix(out, Expected)
        /\ exit # "running" => out = Expected
        /\ \A t \in Tasks :
              cur = t /\ line[t] \in {5, 6} => now >= (idx[t] - 1) * SleepDelay

C1_Witness == NoFault /\ exit = "ok" /\ out = Expected /\ group = MainGroup

\* C2: a printer(name, N) task that has completed has emitted exactly N
\* records, each its own name, the k-th in its k-th iteration, and these are
\* its only records (none for N = 0); every record of the output is some
\* task's record.
C2_ExactlyNRecords ==
    /\ \A t \in Tasks :
          state[t] = "Completed" =>
              emitted[t] = [k \in 1..group[t].times |-> <<group[t].name, k>>]
    /\ \A t \in Tasks :
          Len(emitted[t]) <= group[t].times
    /\ Len(out) = EmittedUpTo(Len(group))

C2_Witness ==
    /\ \E t \in Tasks :
          state[t] = "Completed" /\ group[t].times >= 2 /\ Len(emitted[t]) = group[t].times
    /\ \E t \in Tasks :
          state[t] = "Completed" /\ group[t].times = 0 /\ emitted[t] = << >>

\* C3 as claimed: a completed task with N >= 1 steps has made exactly N - 1
\* suspension requests, none after its final print.
C3_Original ==
    \A t \in Tasks :
        state[t] = "Completed" /\ group[t].times >= 1 =>
            nsleeps[t] = group[t].times - 1

\* C3 as amended: a task requests a suspension after every print, the final
\* one included: it has made as many requests as it has emitted records
\* whenever it is not between a print and its sleep, a completed task with N
\* steps has made exactly N requests, and it completes only once the last
\* of them has elapsed.
C3_SleepAfterEveryStep ==
    \A t \in Tasks :
        /\ line[t] # 6 => nsleeps[t] = Len(emitted[t])
        /\ state[t] = "Completed" =>
              /\ nsleeps[t] = group[t].times
              /\ group[t].times >= 1 => now >= wake[t]

C3_Witness ==
    \E t \in Tasks :
        state[t] = "Completed" /\ group[t].times >= 2 /\ nsleeps[t] = group[t].times

\* C4: once gather has returned with success (its outer future has a
\* result, main has returned), every task of the group is Completed with all
\* its iterations done and nothing of it left in the loop's queues.
C4_GatherWaitsForAll ==
    (outer.st = "result" \/ mainpc = "Returned") =>
        /\ \A t \in Tasks :
              /\ state[t] = "Completed"
              /\ idx[t] = group[t].times
        /\ scheduled = << >>
        /\ \A k \in 1..Len(ready) : ready[k].kind \in {"main", "stop", "shutdown"}
        /\ runner # "cancel"

C4_Witness ==
    /\ group = MainGroup /\ mainpc = "Returned"
    /\ state[1] = "Completed" /\ state[2] = "Completed"

Starts(t) == state[t] = "Pending" /\ state'[t] = "Running"

Resumes(t) == state[t] = "Suspended" /\ state'[t] = "Running"

\* tasks are first run in the order they were handed to gather
StartOrder ==
    \A t \in Tasks : Starts(t) => \A u \in 1..(t - 1) : state[u] # "Pending"

\* C5 as claimed: first runs are in submission order; a sleeping task is
\* resumed before every other sleeping task with a later wake time, and
\* among sleeping tasks with equal wake times the one submitted first is
\* resumed first.
C5_Original ==
    [][ /\ StartOrder
        /\ \A t, u \in Tasks :
              Resumes(t) /\ u # t /\ state[u] = "Suspended" =>
                  \/ wake[t] < wake[u]
                  \/ wake[t] = wake[u] /\ t < u ]_vars

\* C5 as amended: first runs are in submission order; a sleeping task is
\* resumed before every other sleeping task with a later wake time, and
\* among the sleeping tasks of main's group with equal wake times the one
\* that requested its sleep first is resumed first (which need not be the
\* one submitted first).
C5_WakeOrder ==
    [][ /\ StartOrder
        /\ \A t, u \in Tasks :
              Resumes(t) /\ u # t /\ state[u] = "Suspended" =>
                  \/ wake[t] < wake[u]
                  \/ wake[t] = wake[u] /\ reqno[t] < reqno[u] ]_vars

C5_Witness ==
    /\ state[2] = "Running" /\ nsleeps[2] >= 1
    /\ state[1] = "Suspended" /\ wake[1] = wake[2] /\ reqno[2] < reqno[1]

\* C6: a task that has control is never ahead of the deadline of its latest
\* sleep: it runs only in states whose clock has reached the time of the
\* request plus the delay.
C6_NeverEarly ==
    \A t \in Tasks :
        state[t] = "Running" /\ nsleeps[t] >= 1 => now >= wake[t]

C6_Witness ==
    \E t, u \in Tasks :
        /\ state[t] = "Running" /\ nsleeps[t] >= 1 /\ now = wake[t]
        /\ state[u] = "Suspended" /\ wake[u] > now

RunningTasks == { t \in Tasks : state[t] = "Running" }

OneRunning ==
    /\ Cardinality(RunningTasks) <= 1
    /\ \A t \in Tasks : state[t] = "Running" <=> cur = t

NoPreemption ==
    \A t \in Tasks :
        state[t] = "Running" =>
            /\ \A u \in Tasks \ {t} :
                  /\ state'[u] = state[u]
                  /\ idx'[u] = idx[u]
                  /\ line'[u] = line[u]
                  /\ emitted'[u] = emitted[u]
            /\ out' = out \/ out' = Append(out, group[t].name)
            /\ state'[t] # "Running" =>
                  \/ line[t] = 6 /\ state'[t] = "Suspended"
                  \/ line[t] = 4 /\ state'[t] = "Completed"
                  \/ line[t] = 5 /\ state'[t] = "Failed"

\* C7: at most one task is Running, and it is the one the loop is executing;
\* while a task is Running no other task changes and every record printed
\* is its own; it stops Running only at its sleep call, at its completion or
\* at its failure.
C7_Cooperative == [] OneRunning /\ [][NoPreemption]_vars

C7_Witness ==
    /\ cur = 1 /\ line[1] = 6 /\ state[2] = "Suspended" /\ now >= wake[2]
    /\ nsleeps[1] >= 1

FailureSurfaced ==
    /\ \A t \in Tasks : state[t] = "Failed" <=> t \in Range(failed)
    /\ failed # << >> /\ outer.st # "pending" =>
          outer = [st |-> "exception", exc |-> failed[1]]
    /\ failed # << >> /\ exit # "running" =>
          exit = "error" /\ mainpc = "Raised" /\ outer.exc = failed[1]

FailedIsFinal ==
    /\ \A t \in Tasks :
          state[t] = "Failed" =>
              /\ state'[t] = "Failed"
              /\ idx'[t] = idx[t]
              /\ emitted'[t] = emitted[t]
    /\ IsPrefix(out, out')

\* C8: a task whose step fails is Failed for good and runs no further step;
\* gather's outer future carries the exception of the first task that
\* failed and main raises it, so the program exits with an error; the
\* output only grows, so the records printed before stay in it.
C8_FailurePropagates == [] FailureSurfaced /\ [][FailedIsFinal]_vars

C8_Witness ==
    /\ exit = "error" /\ failed = <<2>> /\ outer.exc = 2
    /\ state[1] = "Cancelled" /\ Len(emitted[1]) >= 2 /\ Len(out) >= 3

\* both tasks fail: the exception of the one that failed first is raised
C8_WitnessTwoFailures ==
    /\ exit = "error" /\ Len(failed) = 2 /\ outer.exc = failed[1]
    /\ \E t \in Tasks : state[t] = "Failed" /\ emitted[t] # << >>

AllDone ==
    /\ exit = "ok"
    /\ \A t \in Tasks : state[t] = "Completed"
    /\ ready = << >> /\ scheduled = << >>
    /\ mainpc = "Returned"

\* C9: with the loop running and the clock advancing, the program always
\* exits; when no print fails it exits with every task Completed, the
\* loop's queues empty and gather returned.
C9_Terminates ==
    /\ <>(exit # "running")
    /\ NoFault => <> AllDone

C9_Witness == AllDone /\ group = MainGroup /\ now >= TimesA * SleepDelay

\* C10: gather of an empty group is done at once: main never waits on it,
\* nothing is printed, no timer is set and the program exits with success.
C10_EmptyGather ==
    group = << >> =>
        /\ mainpc \in {"Pending", "Returned"}
        /\ outer.st \in {"none", "result"}
        /\ out = << >>
        /\ scheduled = << >>
        /\ exit \in {"running", "ok"}

C10_Witness == group = << >> /\ exit = "ok" /\ mainpc = "Returned"
====
